---------------------------- MODULE Spec2Model ----------------------------
(***************************************************************************)
(* Column-expression constructors of pyspark/sql/functions.py and the      *)
(* prime-factorisation script, as a state machine.                         *)
(*                                                                         *)
(* A state is the last constructor call made by the caller (call), the     *)
(* trace of what that call did outside the Python process (log: notices    *)
(* handed to the warnings machinery, column handles created in the engine, *)
(* engine function calls), what it returned or raised (result), and the    *)
(* last row the engine evaluated a window expression on (row).  Next to    *)
(* it stand the module's globals (registry), the dict bound as the default *)
(* of every options parameter (default_options), the caller's own options  *)
(* dict before and after the call (supplied), one failed call the caller   *)
(* remembers (failure), callers that look a name up and call it, step by   *)
(* step (callers), and a run of primeFactors (locals, stdout).             *)
(*                                                                         *)
(* Time is counted in whole seconds since the epoch; durations are the     *)
(* interval strings "<n> <unit>" kept as the pair (n, unit).               *)
(***************************************************************************)
EXTENDS Integers, Sequences, FiniteSets, TLC

VARIABLES call, log, result, row, registry, default_options, supplied, failure,
          callers, locals, stdout

vars ==
    <<call, log, result, row, registry, default_options, supplied, failure,
      callers, locals, stdout>>

\* what a constructor call has no hand in
elsewhere == <<callers, locals, stdout>>

-----------------------------------------------------------------------------
(* Bounds of the model *)

\* longest window length / slide, in seconds, the caller asks for
MaxDur == 5
\* largest start offset (in absolute value), in seconds
MaxOff == 5
\* timestamps of evaluated rows range over -MaxTime .. MaxTime
MaxTime == 7
\* most arguments passed to a variadic constructor
MaxArgs == 3
\* offsets start_offset + k * slide are compared for k in -MaxShift .. MaxShift
MaxShift == 2
\* callers at work at the same time
NumCallers == 2
\* largest number primeFactors is run on, the driver's number apart
MaxN == 40
\* numbers kept of what a run that never ends prints
MaxPrinted == 12
\* calls counted after a failed call was remembered; later ones are not told
\* apart
MaxLater == 2

-----------------------------------------------------------------------------
(* Python values *)

PyNone == [kind |-> "None"]
PyObject == [kind |-> "object"]
PyStr(s) == [kind |-> "str", s |-> s]
PyInt(v) == [kind |-> "int", v |-> v]
PyFloat(v) == [kind |-> "float", v |-> v]
PyBool(v) == [kind |-> "bool", v |-> v]
\* the interval string "<n> <unit>s"
DurStr(n, unit) == [kind |-> "str", n |-> n, unit |-> unit]
\* a list; a set is given by its elements in the order this process
\* iterates them
PyList(items) == [kind |-> "list", items |-> items]
PySet(items) == [kind |-> "set", items |-> items]
\* a dict: items maps each key to its value
PyDict(items) == [kind |-> "dict", items |-> items]
\* a pyspark.sql.types.DataType whose json() is the given text
PyDataType(json) == [kind |-> "DataType", json |-> json]

(* Engine-side expression handles *)
ColumnRef(name) == [kind |-> "ColumnRef", name |-> name]
Literal(k, v) == [kind |-> "Literal", lit |-> k, v |-> v]
Call(fn, args) == [kind |-> "Call", fn |-> fn, args |-> args]
NoHandle == [kind |-> "NoHandle"]

\* pyspark.sql.column.Column: the Python wrapper of an engine handle
Column(jc) == [kind |-> "Column", jc |-> jc]

isinstance(v, kinds) == v.kind \in kinds

\* a test that takes only None as not given
TruthyUnlessNone(v) == v.kind # "None"

\* Python truthiness of the values above (None, "", 0, 0.0, False are falsy)
Truthy(v) ==
    CASE v.kind = "None" -> FALSE
      [] v.kind = "str" -> v # PyStr("")
      [] v.kind \in {"int", "float", "bool"} -> v.v # 0
      [] OTHER -> TRUE

-----------------------------------------------------------------------------
(* Outcomes: a value or a raised error, with the trace of outside effects *)

Event(ev, fn, args) == [ev |-> ev, fn |-> fn, args |-> args]
Ok(v, evs) == [err |-> "", val |-> v, log |-> evs]
Raise(e, evs) == [err |-> e, val |-> NoHandle, log |-> evs]

-----------------------------------------------------------------------------
(* The execution engine, seen from the constructors *)

\* interval units of a fixed length, in seconds; "month" has none
UnitSeconds(unit) ==
    CASE unit = "second" -> 1
      [] unit = "minute" -> 60
      [] OTHER -> 0

SupportedUnits == {"second", "minute"}

IsInterval(d) == d.kind = "str" /\ "unit" \in DOMAIN d

IntervalSeconds(d) == d.n * UnitSeconds(d.unit)

\* the WindowSpec the engine reads from the arguments of a window call:
\* the slide defaults to the length, the start offset to zero
WindowSpecOf(args) ==
    [length |-> IntervalSeconds(args[2]),
     slide |-> IF Len(args) >= 3 THEN IntervalSeconds(args[3])
               ELSE IntervalSeconds(args[2]),
     start_offset |-> IF Len(args) >= 4 THEN IntervalSeconds(args[4]) ELSE 0]

\* the engine's check of a window call when the expression is built
WindowRejection(args) ==
    IF \E i \in 2..Len(args) : ~IsInterval(args[i])
    THEN "EngineRejectedExpression"
    ELSE IF \E i \in 2..Len(args) : args[i].unit \notin SupportedUnits
    THEN "UnsupportedWindowUnitError"
    ELSE IF WindowSpecOf(args).length <= 0 \/ WindowSpecOf(args).slide <= 0
    THEN "EngineRejectedExpression"
    ELSE ""

\* the TypedScalar kind of a native value, "" when it has none
LiteralKind(v) ==
    CASE v.kind = "bool" -> "boolean"
      [] v.kind = "int" -> "integer"
      [] v.kind = "float" -> "float"
      [] v.kind = "str" -> "string"
      [] v.kind = "None" -> "null"
      [] OTHER -> ""

\* an engine-side expression, as opposed to a native value
IsHandle(a) == a.kind \in {"ColumnRef", "Literal", "Call"}

\* functions.lit of the engine: an expression comes back as it is, a scalar
\* becomes the literal of its kind
EngineLit(a, done) ==
    IF IsHandle(a) THEN Ok(a, done)
    ELSE IF LiteralKind(a) = "" THEN Raise("UnsupportedLiteralError", done)
    ELSE Ok(Literal(LiteralKind(a), a), done)

\* sc._jvm.functions.<fn>(*args): one engine call, answered by a handle of
\* the new expression or by a failure
jvm(fn, args, evs) ==
    LET done == evs \o <<Event("call", fn, args)>>
    IN  IF fn = "window" /\ WindowRejection(args) # ""
        THEN Raise(WindowRejection(args), done)
        ELSE IF fn = "lit" THEN EngineLit(args[1], done)
        ELSE IF fn \in {"col", "column"}
        THEN IF isinstance(args[1], {"str"}) THEN Ok(ColumnRef(args[1].s), done)
             ELSE Raise("EngineRejectedExpression", done)
        ELSE Ok(Call(fn, args), done)

CeilDiv(a, b) == (a + b - 1) \div b

\* remainder in 0 .. b-1 whatever the sign of a
FloorMod(a, b) == a % b

\* remainder with the sign of a (what a truncating division leaves)
TruncMod(a, b) == IF a >= 0 THEN a % b ELSE -((-a) % b)

\* starts of the buckets of WindowSpec w that hold timestamp t
BucketStartsTrunc(t, w) ==
    LET offset == TruncMod(w.start_offset, w.slide)
        lastStart == t - TruncMod(t - offset, w.slide)
        n == CeilDiv(w.length, w.slide)
    IN  {s \in {lastStart - i * w.slide : i \in 0..(n - 1)} :
            s <= t /\ t < s + w.length}

BucketStarts(t, w) ==
    LET offset == FloorMod(w.start_offset, w.slide)
        lastStart == t - FloorMod(t - offset, w.slide)
        n == CeilDiv(w.length, w.slide)
    IN  {s \in {lastStart - i * w.slide : i \in 0..(n - 1)} :
            s <= t /\ t < s + w.length}

\* the struct values (start, end) a window expression yields for a row
Buckets(t, w) == {[start |-> s, end |-> s + w.length] : s \in BucketStarts(t, w)}

-----------------------------------------------------------------------------
(* pyspark.sql.column helpers *)

_create_column_from_name(name) ==
    Ok(ColumnRef(name.s), <<Event("col", "col", <<name>>)>>)

_create_column_from_literal(v) ==
    IF LiteralKind(v) = "" THEN Raise("UnsupportedLiteralError", <<>>)
    ELSE Ok(Literal(LiteralKind(v), v), <<Event("col", "lit", <<v>>)>>)

_to_java_column(col) ==
    IF isinstance(col, {"Column"}) THEN Ok(col.jc, <<>>)
    ELSE IF isinstance(col, {"str"}) THEN _create_column_from_name(col)
    ELSE _create_column_from_literal(col)

\* _to_seq(sc, cols, _to_java_column): the converted elements in order,
\* or the first failure
RECURSIVE _to_seq(_, _)
_to_seq(cols, evs) ==
    IF cols = <<>> THEN Ok(<<>>, evs)
    ELSE LET head == _to_java_column(Head(cols))
         IN  IF head.err # "" THEN Raise(head.err, evs \o head.log)
             ELSE LET rest == _to_seq(Tail(cols), evs \o head.log)
                  IN  IF rest.err # "" THEN rest
                      ELSE Ok(<<head.val>> \o rest.val, rest.log)

\* return Column(jc)
Return(r) == IF r.err # "" THEN r ELSE Ok(Column(r.val), r.log)

-----------------------------------------------------------------------------
(* pyspark/sql/functions.py: the constructor factories *)

\* a factory that hands a non-Column argument to the engine as it is
CreateFunctionRaw(name, col) ==
    Return(jvm(name, <<IF isinstance(col, {"Column"}) THEN col.jc ELSE col>>, <<>>))

_create_function_over_column(name, col) ==
    LET jc == _to_java_column(col)
    IN  IF jc.err # "" THEN jc
        ELSE Return(jvm(name, <<jc.val>>, jc.log))

\* a wrapper that delegates first and warns afterwards
WrapWarnAfter(func, message, col) ==
    LET r == _create_function_over_column(func, col)
    IN  [r EXCEPT !.log = r.log \o <<Event("warn", message, <<>>)>>]

\* func is the function _create_function_over_column made under that name
_wrap_deprecated_function(func, message, col) ==
    LET r == _create_function_over_column(func, col)
    IN  [r EXCEPT !.log = <<Event("warn", message, <<>>)>> \o r.log]

\* float(v) of a value that is neither a Column nor a string
float(v) ==
    IF v.kind \in {"int", "float", "bool"} THEN Ok(PyFloat(v.v), <<>>)
    ELSE Raise("TypeError", <<>>)

\* one argument of a binary math function
BinaryArg(col) ==
    IF isinstance(col, {"Column"}) THEN Ok(col.jc, <<>>)
    ELSE IF isinstance(col, {"str"}) THEN _create_column_from_name(col)
    ELSE float(col)

\* the second block testing col1 where it should test col2
BinaryMathCoupled(name, col1, col2) ==
    LET arg1 == BinaryArg(col1)
        arg2 == IF isinstance(col1, {"Column"})
                THEN IF isinstance(col2, {"Column"}) THEN Ok(col2.jc, <<>>)
                     ELSE Raise("AttributeError", <<>>)
                ELSE IF isinstance(col1, {"str"})
                THEN IF isinstance(col2, {"str"}) THEN _create_column_from_name(col2)
                     ELSE Raise("TypeError", <<>>)
                ELSE IF isinstance(col2, {"Column", "str"}) THEN Raise("TypeError", <<>>)
                ELSE float(col2)
    IN  IF arg1.err # "" THEN arg1
        ELSE IF arg2.err # "" THEN Raise(arg2.err, arg1.log \o arg2.log)
        ELSE Return(jvm(name, <<arg1.val, arg2.val>>, arg1.log \o arg2.log))

_create_binary_mathfunction(name, col1, col2) ==
    LET arg1 == BinaryArg(col1)
        arg2 == BinaryArg(col2)
    IN  IF arg1.err # "" THEN arg1
        ELSE IF arg2.err # "" THEN Raise(arg2.err, arg1.log \o arg2.log)
        ELSE Return(jvm(name, <<arg1.val, arg2.val>>, arg1.log \o arg2.log))

-----------------------------------------------------------------------------
(* The registry: the names bound at module level *)

_functions_over_column ==
    {"sqrt", "abs", "max", "min", "count", "sum", "avg", "mean", "sumDistinct"}

_functions_1_4_over_column ==
    {"acos", "asin", "atan", "cbrt", "ceil", "cos", "cosh", "exp", "expm1",
     "floor", "log", "log10", "log1p", "rint", "signum", "sin", "sinh", "tan",
     "tanh", "toDegrees", "toRadians", "bitwiseNOT"}

_functions_1_6_over_column ==
    {"stddev", "stddev_samp", "stddev_pop", "variance", "var_samp", "var_pop",
     "skewness", "kurtosis", "collect_list", "collect_set"}

_functions_2_1_over_column == {"degrees", "radians"}

_binary_mathfunctions == {"atan2", "hypot", "pow"}

\* deprecated name -> message
_functions_deprecated ==
    [n \in {"toDegrees", "toRadians"} |->
        IF n = "toDegrees" THEN "Deprecated in 2.1, use degrees instead."
        ELSE "Deprecated in 2.1, use radians instead."]

OverColumnNames ==
    _functions_over_column \cup _functions_1_4_over_column
        \cup _functions_1_6_over_column \cup _functions_2_1_over_column

\* globals()[name](col) once the module-level loops have run: the function
\* made under the name, wrapped when the name is deprecated
globals(name, col) ==
    IF name \in DOMAIN _functions_deprecated
    THEN _wrap_deprecated_function(name, _functions_deprecated[name], col)
    ELSE _create_function_over_column(name, col)

-----------------------------------------------------------------------------
(* pyspark/sql/functions.py: window functions, string functions and the
   module's globals *)

_window_functions == {"row_number", "dense_rank", "rank", "cume_dist", "percent_rank"}

_string_functions ==
    {"upper", "lower", "ascii", "base64", "unbase64", "ltrim", "rtrim", "trim"}

\* the closure `_()` called with the positional arguments args: Python
\* raises TypeError before the body when there are any
_create_window_function(name, args) ==
    IF Len(args) # 0 THEN Raise("TypeError", <<>>)
    ELSE Return(jvm(name, <<>>, <<>>))

\* a closure that takes its first argument and lets any others pass
OverColumnFirstOf(name, args) ==
    IF Len(args) = 0 THEN Raise("TypeError", <<>>)
    ELSE _create_function_over_column(name, args[1])

\* the closure `_(col)` called with the positional arguments args: Python
\* raises TypeError before the body unless there is exactly one
OverColumnApplied(name, args) ==
    IF Len(args) # 1 THEN Raise("TypeError", <<>>)
    ELSE _create_function_over_column(name, args[1])

-----------------------------------------------------------------------------
(* pyspark/sql/functions.py: the constructors written out by hand *)

approx_count_distinct(col, rsd) ==
    LET jc == _to_java_column(col)
    IN  IF jc.err # "" THEN jc
        ELSE IF rsd = PyNone THEN Return(jvm("approx_count_distinct", <<jc.val>>, jc.log))
        ELSE Return(jvm("approx_count_distinct", <<jc.val, rsd>>, jc.log))

\* the deprecated name forgetting the rsd it was given
ApproxCountDistinctNoRsd(col, rsd) ==
    LET r == approx_count_distinct(col, PyNone)
    IN  [r EXCEPT !.log =
            <<Event("warn", "Deprecated in 2.1, use approx_count_distinct instead.", <<>>)>>
                \o r.log]

approxCountDistinct(col, rsd) ==
    LET r == approx_count_distinct(col, rsd)
    IN  [r EXCEPT !.log =
            <<Event("warn", "Deprecated in 2.1, use approx_count_distinct instead.", <<>>)>>
                \o r.log]

\* a guard that lets a single column through
GreatestAtLeastOne(cols) ==
    IF Len(cols) < 1 THEN Raise("ValueError", <<>>)
    ELSE LET seq == _to_seq(cols, <<>>)
         IN  IF seq.err # "" THEN seq
             ELSE Return(jvm("greatest", seq.val, seq.log))

greatest(cols) ==
    IF Len(cols) < 2 THEN Raise("ValueError", <<>>)
    ELSE LET seq == _to_seq(cols, <<>>)
         IN  IF seq.err # "" THEN seq
             ELSE Return(jvm("greatest", seq.val, seq.log))

least(cols) ==
    IF Len(cols) < 2 THEN Raise("ValueError", <<>>)
    ELSE LET seq == _to_seq(cols, <<>>)
         IN  IF seq.err # "" THEN seq
             ELSE Return(jvm("least", seq.val, seq.log))

\* a check of the type alone, that lets an empty string pass
CheckTypeOnly(field) == field.kind = "str"

\* check_string_field passes: the field is a non-empty str
check_string_field(field) == Truthy(field) /\ field.kind = "str"

\* the start offset handed over in the slide's place when no slide is given
WindowStartAsSlide(timeColumn, windowDuration, slideDuration, startTime) ==
    LET time_col == _to_java_column(timeColumn)
    IN  IF time_col.err # "" THEN time_col
        ELSE IF ~check_string_field(windowDuration) THEN Raise("TypeError", time_col.log)
        ELSE IF Truthy(slideDuration) /\ Truthy(startTime) THEN
            IF ~check_string_field(slideDuration) \/ ~check_string_field(startTime)
            THEN Raise("TypeError", time_col.log)
            ELSE Return(jvm("window",
                    <<time_col.val, windowDuration, slideDuration, startTime>>,
                    time_col.log))
        ELSE IF Truthy(slideDuration) THEN
            IF ~check_string_field(slideDuration) THEN Raise("TypeError", time_col.log)
            ELSE Return(jvm("window", <<time_col.val, windowDuration, slideDuration>>,
                    time_col.log))
        ELSE IF Truthy(startTime) THEN
            IF ~check_string_field(startTime) THEN Raise("TypeError", time_col.log)
            ELSE Return(jvm("window", <<time_col.val, windowDuration, startTime>>,
                    time_col.log))
        ELSE Return(jvm("window", <<time_col.val, windowDuration>>, time_col.log))

\* the start offset forgotten when slide and start are both given
WindowDropsStart(timeColumn, windowDuration, slideDuration, startTime) ==
    LET time_col == _to_java_column(timeColumn)
    IN  IF time_col.err # "" THEN time_col
        ELSE IF ~check_string_field(windowDuration) THEN Raise("TypeError", time_col.log)
        ELSE IF Truthy(slideDuration) /\ Truthy(startTime) THEN
            IF ~check_string_field(slideDuration) \/ ~check_string_field(startTime)
            THEN Raise("TypeError", time_col.log)
            ELSE Return(jvm("window", <<time_col.val, windowDuration, slideDuration>>,
                    time_col.log))
        ELSE IF Truthy(slideDuration) THEN
            IF ~check_string_field(slideDuration) THEN Raise("TypeError", time_col.log)
            ELSE Return(jvm("window", <<time_col.val, windowDuration, slideDuration>>,
                    time_col.log))
        ELSE IF Truthy(startTime) THEN
            IF ~check_string_field(startTime) THEN Raise("TypeError", time_col.log)
            ELSE Return(jvm("window",
                    <<time_col.val, windowDuration, windowDuration, startTime>>,
                    time_col.log))
        ELSE Return(jvm("window", <<time_col.val, windowDuration>>, time_col.log))

\* window length and slide handed over in each other's place
WindowSwapsSlide(timeColumn, windowDuration, slideDuration, startTime) ==
    LET time_col == _to_java_column(timeColumn)
    IN  IF time_col.err # "" THEN time_col
        ELSE IF ~check_string_field(windowDuration) THEN Raise("TypeError", time_col.log)
        ELSE IF Truthy(slideDuration) /\ Truthy(startTime) THEN
            IF ~check_string_field(slideDuration) \/ ~check_string_field(startTime)
            THEN Raise("TypeError", time_col.log)
            ELSE Return(jvm("window",
                    <<time_col.val, slideDuration, windowDuration, startTime>>,
                    time_col.log))
        ELSE IF Truthy(slideDuration) THEN
            IF ~check_string_field(slideDuration) THEN Raise("TypeError", time_col.log)
            ELSE Return(jvm("window", <<time_col.val, slideDuration, windowDuration>>,
                    time_col.log))
        ELSE IF Truthy(startTime) THEN
            IF ~check_string_field(startTime) THEN Raise("TypeError", time_col.log)
            ELSE Return(jvm("window",
                    <<time_col.val, windowDuration, windowDuration, startTime>>,
                    time_col.log))
        ELSE Return(jvm("window", <<time_col.val, windowDuration>>, time_col.log))

window(timeColumn, windowDuration, slideDuration, startTime) ==
    LET time_col == _to_java_column(timeColumn)
    IN  IF time_col.err # "" THEN time_col
        ELSE IF ~check_string_field(windowDuration) THEN Raise("TypeError", time_col.log)
        ELSE IF Truthy(slideDuration) /\ Truthy(startTime) THEN
            IF ~check_string_field(slideDuration) \/ ~check_string_field(startTime)
            THEN Raise("TypeError", time_col.log)
            ELSE Return(jvm("window",
                    <<time_col.val, windowDuration, slideDuration, startTime>>,
                    time_col.log))
        ELSE IF Truthy(slideDuration) THEN
            IF ~check_string_field(slideDuration) THEN Raise("TypeError", time_col.log)
            ELSE Return(jvm("window", <<time_col.val, windowDuration, slideDuration>>,
                    time_col.log))
        ELSE IF Truthy(startTime) THEN
            IF ~check_string_field(startTime) THEN Raise("TypeError", time_col.log)
            ELSE Return(jvm("window",
                    <<time_col.val, windowDuration, windowDuration, startTime>>,
                    time_col.log))
        ELSE Return(jvm("window", <<time_col.val, windowDuration>>, time_col.log))

-----------------------------------------------------------------------------
(* pyspark/sql/functions.py: constructors that hand their argument to the
   engine function of the same name *)

\* a factory that hands the Python wrapper itself to the engine
CreateFunctionKeepsWrapper(name, col) ==
    Return(jvm(name, <<col>>, <<>>))

_create_function(name, col) ==
    Return(jvm(name, <<IF isinstance(col, {"Column"}) THEN col.jc ELSE col>>, <<>>))

_functions == {"lit", "col", "column", "asc", "desc"}

_functions_2_4 ==
    {"asc_nulls_first", "asc_nulls_last", "desc_nulls_first", "desc_nulls_last"}

-----------------------------------------------------------------------------
(* pyspark/sql/functions.py: constructors over any number of columns *)

\* struct that takes the elements of a leading list whatever follows it
StructFlattensFirst(cols) ==
    LET flat == IF Len(cols) >= 1 /\ isinstance(cols[1], {"list", "set"})
                THEN cols[1].items ELSE cols
        seq == _to_seq(flat, <<>>)
    IN  IF seq.err # "" THEN seq ELSE Return(jvm("struct", seq.val, seq.log))

struct(cols) ==
    LET flat == IF Len(cols) = 1 /\ isinstance(cols[1], {"list", "set"})
                THEN cols[1].items ELSE cols
        seq == _to_seq(flat, <<>>)
    IN  IF seq.err # "" THEN seq ELSE Return(jvm("struct", seq.val, seq.log))

create_map(cols) ==
    LET flat == IF Len(cols) = 1 /\ isinstance(cols[1], {"list", "set"})
                THEN cols[1].items ELSE cols
        seq == _to_seq(flat, <<>>)
    IN  IF seq.err # "" THEN seq ELSE Return(jvm("map", seq.val, seq.log))

array(cols) ==
    LET flat == IF Len(cols) = 1 /\ isinstance(cols[1], {"list", "set"})
                THEN cols[1].items ELSE cols
        seq == _to_seq(flat, <<>>)
    IN  IF seq.err # "" THEN seq ELSE Return(jvm("array", seq.val, seq.log))

map_concat(cols) ==
    LET flat == IF Len(cols) = 1 /\ isinstance(cols[1], {"list", "set"})
                THEN cols[1].items ELSE cols
        seq == _to_seq(flat, <<>>)
    IN  IF seq.err # "" THEN seq ELSE Return(jvm("map_concat", seq.val, seq.log))

-----------------------------------------------------------------------------
(* pyspark/sql/functions.py: when, overlay, substring_index, array_repeat *)

\* when that resolves its condition as the constructors over a column do
WhenResolvesCondition(condition, value) ==
    LET c == _to_java_column(condition)
    IN  IF c.err # "" THEN c
        ELSE Return(jvm("when",
                        <<c.val, IF isinstance(value, {"Column"}) THEN value.jc ELSE value>>,
                        c.log))

when(condition, value) ==
    IF ~isinstance(condition, {"Column"}) THEN Raise("TypeError", <<>>)
    ELSE Return(jvm("when",
                    <<condition.jc,
                      IF isinstance(value, {"Column"}) THEN value.jc ELSE value>>,
                    <<>>))

\* isinstance(v, int) also holds of a bool, bool being a subclass of int
overlay(src, replace, pos, len) ==
    IF ~isinstance(pos, {"int", "bool", "str", "Column"}) THEN Raise("TypeError", <<>>)
    ELSE IF ~isinstance(len, {"int", "bool", "str", "Column"}) THEN Raise("TypeError", <<>>)
    ELSE LET p == IF isinstance(pos, {"int", "bool"})
                  THEN _create_column_from_literal(pos) ELSE _to_java_column(pos)
             l == IF isinstance(len, {"int", "bool"})
                  THEN _create_column_from_literal(len) ELSE _to_java_column(len)
             sr == _to_seq(<<src, replace>>, p.log \o l.log)
         IN  IF sr.err # "" THEN sr
             ELSE Return(jvm("overlay", <<sr.val[1], sr.val[2], p.val, l.val>>, sr.log))

\* substring_index that takes a bare string as the text to cut
SubstringIndexOfText(str, delim, count) ==
    LET jc == IF isinstance(str, {"Column"}) THEN _to_java_column(str)
              ELSE _create_column_from_literal(str)
    IN  IF jc.err # "" THEN jc
        ELSE Return(jvm("substring_index", <<jc.val, delim, count>>, jc.log))

substring_index(str, delim, count) ==
    LET jc == _to_java_column(str)
    IN  IF jc.err # "" THEN jc
        ELSE Return(jvm("substring_index", <<jc.val, delim, count>>, jc.log))

\* array_repeat that converts a plain count as the binary math functions do
ArrayRepeatFloatCount(col, count) ==
    LET jc == _to_java_column(col)
        c == IF isinstance(count, {"Column"}) THEN _to_java_column(count)
             ELSE float(count)
    IN  IF jc.err # "" THEN jc
        ELSE IF c.err # "" THEN Raise(c.err, jc.log)
        ELSE Return(jvm("array_repeat", <<jc.val, c.val>>, jc.log \o c.log))

array_repeat(col, count) ==
    LET jc == _to_java_column(col)
        c == IF isinstance(count, {"Column"}) THEN _to_java_column(count)
             ELSE Ok(count, <<>>)
    IN  IF jc.err # "" THEN jc
        ELSE Return(jvm("array_repeat", <<jc.val, c.val>>, jc.log \o c.log))

-----------------------------------------------------------------------------
(* pyspark/sql/functions.py: constructors that take reader or writer options *)

Decimal == <<"0", "1", "2", "3", "4", "5", "6", "7", "8", "9">>

\* pyspark.sql.utils.to_str: the canonical string of an option value
to_str(value) ==
    CASE value.kind = "bool" -> PyStr(IF value.v = 1 THEN "true" ELSE "false")
      [] value.kind = "int" -> PyStr(Decimal[value.v + 1])
      [] OTHER -> value

\* key.lower() of the option keys in use
Lower(key) ==
    IF key = "ignoreLeadingWhiteSpace" THEN "ignoreleadingwhitespace" ELSE key

\* a serializer that writes the strings back into the dict it was given
OptionsLeftSerialized(options) ==
    PyDict([key \in DOMAIN options.items |-> to_str(options.items[key])])

\* a serializer that hands the values on as they are
OptionsRaw(options) == options

\* a serializer that also folds the keys to lower case
OptionsLowerKeys(options) ==
    PyDict([key \in {Lower(k) : k \in DOMAIN options.items} |->
                to_str(options.items[CHOOSE k \in DOMAIN options.items : Lower(k) = key])])

\* the dict options after _options_to_str(options) has run: the dict
\* comprehension builds a new dict and assigns nothing in options
OptionsLeft(options) == options

_options_to_str(options) ==
    PyDict([key \in DOMAIN options.items |-> to_str(options.items[key])])

from_json(col, schema, options) ==
    LET s == IF isinstance(schema, {"DataType"}) THEN Ok(PyStr(schema.json), <<>>)
             ELSE IF isinstance(schema, {"Column"}) THEN _to_java_column(schema)
             ELSE Ok(schema, <<>>)
        jc == _to_java_column(col)
    IN  IF jc.err # "" THEN Raise(jc.err, s.log \o jc.log)
        ELSE Return(jvm("from_json", <<jc.val, s.val, _options_to_str(options)>>,
                        s.log \o jc.log))

to_json(col, options) ==
    LET jc == _to_java_column(col)
    IN  IF jc.err # "" THEN jc
        ELSE Return(jvm("to_json", <<jc.val, _options_to_str(options)>>, jc.log))

schema_of_json(json, options) ==
    LET col == IF isinstance(json, {"str"}) THEN _create_column_from_literal(json)
               ELSE IF isinstance(json, {"Column"}) THEN _to_java_column(json)
               ELSE Raise("TypeError", <<>>)
    IN  IF col.err # "" THEN col
        ELSE Return(jvm("schema_of_json", <<col.val, _options_to_str(options)>>, col.log))

\* schema_of_csv that takes a string as a column name
SchemaOfCsvAsColumn(csv, options) ==
    LET col == IF isinstance(csv, {"str", "Column"}) THEN _to_java_column(csv)
               ELSE Raise("TypeError", <<>>)
    IN  IF col.err # "" THEN col
        ELSE Return(jvm("schema_of_csv", <<col.val, _options_to_str(options)>>, col.log))

schema_of_csv(csv, options) ==
    LET col == IF isinstance(csv, {"str"}) THEN _create_column_from_literal(csv)
               ELSE IF isinstance(csv, {"Column"}) THEN _to_java_column(csv)
               ELSE Raise("TypeError", <<>>)
    IN  IF col.err # "" THEN col
        ELSE Return(jvm("schema_of_csv", <<col.val, _options_to_str(options)>>, col.log))

\* to_csv that hands the caller's options to the engine unserialized
ToCsvRawOptions(col, options) ==
    LET jc == _to_java_column(col)
    IN  IF jc.err # "" THEN jc
        ELSE Return(jvm("to_csv", <<jc.val, options>>, jc.log))

to_csv(col, options) ==
    LET jc == _to_java_column(col)
    IN  IF jc.err # "" THEN jc
        ELSE Return(jvm("to_csv", <<jc.val, _options_to_str(options)>>, jc.log))

from_csv(col, schema, options) ==
    LET s == IF isinstance(schema, {"str"}) THEN _create_column_from_literal(schema)
             ELSE IF isinstance(schema, {"Column"}) THEN _to_java_column(schema)
             ELSE Raise("TypeError", <<>>)
        jc == _to_java_column(col)
    IN  IF s.err # "" THEN s
        ELSE IF jc.err # "" THEN Raise(jc.err, s.log \o jc.log)
        ELSE Return(jvm("from_csv", <<jc.val, s.val, _options_to_str(options)>>,
                        s.log \o jc.log))

-----------------------------------------------------------------------------
(* pyspark/sql/functions.py: the module's globals *)

\* names whose function is written out with def
HandWritten ==
    {"approx_count_distinct", "approxCountDistinct", "greatest", "least", "window",
     "struct", "create_map", "array", "map_concat", "when", "overlay",
     "substring_index", "array_repeat", "from_json", "to_json", "schema_of_json",
     "schema_of_csv", "to_csv", "from_csv"}

\* globals()[_name] = <factory>(_name, _doc) for every _name of a dict
Bind(names, factory) == [name \in names |-> [factory |-> factory, name |-> name]]

\* globals()[_name] = _wrap_deprecated_function(globals()[_name], _message)
Wrap(reg) ==
    [name \in DOMAIN _functions_deprecated |->
        [factory |-> "_wrap_deprecated_function", func |-> reg[name],
         message |-> _functions_deprecated[name]]]

\* globals() once the module is imported: the def statements and the
\* registration loops in the order they run, a later assignment to a name
\* replacing an earlier one
ModuleRegistry ==
    LET created == Bind(_functions_2_1_over_column, "_create_function_over_column")
                    @@ Bind(_functions_1_6_over_column, "_create_function_over_column")
                    @@ Bind(_window_functions, "_create_window_function")
                    @@ Bind(_binary_mathfunctions, "_create_binary_mathfunction")
                    @@ Bind(_functions_1_4_over_column, "_create_function_over_column")
                    @@ Bind(_functions_over_column, "_create_function_over_column")
                    @@ Bind(_functions, "_create_function")
                    @@ Bind(HandWritten, "def")
    IN  Bind(_string_functions, "_create_function_over_column")
            @@ Bind(_functions_2_4, "_create_function")
            @@ Wrap(created) @@ created

\* globals() after a body has run that rebinds the name it was called
\* under to the function it wraps
RebindsWrapped(reg, name) ==
    IF reg[name].factory = "_wrap_deprecated_function"
    THEN [reg EXCEPT ![name] = reg[name].func]
    ELSE reg

\* globals() after a body has run that binds its name anew to a function
\* over one column
RebindsOverColumn(reg, name) ==
    [reg EXCEPT ![name] = [factory |-> "_create_function_over_column", name |-> name]]

\* globals() after the function bound to name has run: no body assigns a
\* global
GlobalsAfterCall(reg, name) == reg

\* the function bound to a name, called with positional arguments
Invoke(bound, args) ==
    CASE bound.factory = "_create_window_function" ->
            _create_window_function(bound.name, args)
      [] bound.factory = "_create_function_over_column" ->
            OverColumnApplied(bound.name, args)
      [] bound.factory = "_wrap_deprecated_function" ->
            LET r == OverColumnApplied(bound.func.name, args)
            IN  [r EXCEPT !.log = <<Event("warn", bound.message, <<>>)>> \o r.log]

-----------------------------------------------------------------------------
(* What the caller may pass *)

Columns == {Column(ColumnRef("x")), Column(Call("abs", <<ColumnRef("y")>>))}

PyVals ==
    Columns \cup {PyStr("a"), PyStr("b"), PyInt(3), PyFloat(2), PyBool(1),
                  PyNone, PyObject}

VarArgVals == {Column(ColumnRef("x")), PyStr("a"), PyStr("b"), PyInt(3), PyObject}

ArgLists == UNION {[1..n -> VarArgVals] : n \in 0..MaxArgs}

RsdVals == {PyNone, PyFloat(1)}

TimeColumns == {PyStr("ts"), Column(ColumnRef("ts"))}

NotDurations == {PyNone, PyStr(""), PyInt(0), PyInt(5)}

WindowDurations ==
    {DurStr(n, "second") : n \in 1..MaxDur}
        \cup {DurStr(1, "minute"), DurStr(1, "month")} \cup NotDurations

SlideDurations ==
    {DurStr(n, "second") : n \in 1..MaxDur} \cup {DurStr(1, "month")} \cup NotDurations

StartTimes ==
    {DurStr(n, "second") : n \in (-MaxOff)..MaxOff}
        \cup {DurStr(1, "month")} \cup NotDurations

\* 2016-03-11 09:00:07 UTC, the row of window's doctest
DoctestTime == 1457686807

Timestamps == ((-MaxTime)..MaxTime) \cup {DoctestTime}

\* arguments of struct, array, create_map and map_concat
CollArgVals ==
    {Column(ColumnRef("x")), PyStr("a"), PyObject,
     PyList(<<>>), PyList(<<PyStr("a"), Column(ColumnRef("x"))>>),
     PySet(<<PyStr("a"), PyStr("b")>>), PySet(<<PyStr("b"), PyStr("a")>>)}

CollArgLists == UNION {[1..n -> CollArgVals] : n \in 0..MaxArgs}

\* the keys of the doctests of schema_of_csv and from_csv
OptionKeys == {"sep", "ignoreLeadingWhiteSpace"}

OptionVals == {PyStr("|"), PyStr("true"), PyBool(1), PyBool(0), PyInt(1)}

OptionsMaps ==
    {PyDict(f) : f \in UNION {[K -> OptionVals] : K \in SUBSET OptionKeys}}

DataCols == {PyStr("a"), Column(ColumnRef("x")), PyObject}

Schemas ==
    {PyStr("a INT"), Column(Literal("string", PyStr("a INT"))), PyInt(3),
     PyDataType("\"integer\"")}

SchemaSamples ==
    {PyStr("1|a"), Column(Literal("string", PyStr("1|a"))), PyInt(3), PyNone}

Positions ==
    {PyInt(1), PyInt(-1), PyBool(1), PyStr("p"), Column(ColumnRef("p")),
     PyFloat(2), PyNone}

Texts == {PyStr("a.b.c.d"), Column(ColumnRef("s")), PyObject}

Delims == {PyStr(".")}

Counts == {PyInt(2), PyInt(3), PyInt(-3)}

RepeatCounts ==
    {PyInt(3), PyStr("n"), Column(ColumnRef("n")), Column(Literal("integer", PyInt(3)))}

\* what lit and its siblings are called on, the outcome of an earlier lit
\* included
LitArgs ==
    PyVals \cup {Column(Literal("integer", PyInt(3))), Column(Literal("string", PyStr("a")))}

\* the options parameter left to its default
NotPassed == [kind |-> "NotPassed"]

\* no options dict in the caller's hands
NoOptions == [before |-> NotPassed, after |-> NotPassed]

\* no failed call remembered
NoFailure == [fn |-> "", args |-> <<>>, err |-> "", later |-> 0]

\* the remembered failure once one more call has been made
Later(f) ==
    IF f.fn = "" THEN f
    ELSE [f EXCEPT !.later = IF f.later < MaxLater THEN f.later + 1 ELSE f.later]

\* a caller that is not in a call
NoCaller == [pc |-> "idle", name |-> "", bound |-> PyNone]

\* primeFactors is not running
NotRunning == [pc |-> "off", arg |-> 0, n |-> 0, i |-> 0, stop |-> 0]

NoRow == [evaluated |-> FALSE, t |-> 0, window |-> {}]

-----------------------------------------------------------------------------
(* The state machine *)

Init ==
    /\ call = [fn |-> "", args |-> <<>>]
    /\ log = <<>>
    /\ result = [err |-> "", val |-> NoHandle]
    /\ row = NoRow
    /\ registry = ModuleRegistry
    /\ default_options = PyDict(<<>>)
    /\ supplied = NoOptions
    /\ failure = NoFailure
    /\ callers = [c \in 1..NumCallers |-> NoCaller]
    /\ locals = NotRunning
    /\ stdout = <<>>

Idle == call.fn = ""

CallOverColumn ==
    /\ Idle
    /\ \E name \in OverColumnNames, col \in PyVals :
        LET r == globals(name, col)
        IN  /\ call' = [fn |-> name, args |-> <<col>>]
            /\ log' = r.log
            /\ result' = [err |-> r.err, val |-> r.val]
    /\ row' = NoRow
    /\ failure' = Later(failure)
    /\ UNCHANGED <<registry, default_options, supplied, elsewhere>>

CallBinaryMath ==
    /\ Idle
    /\ \E name \in _binary_mathfunctions, col1 \in PyVals, col2 \in PyVals :
        LET r == _create_binary_mathfunction(name, col1, col2)
        IN  /\ call' = [fn |-> name, args |-> <<col1, col2>>]
            /\ log' = r.log
            /\ result' = [err |-> r.err, val |-> r.val]
    /\ row' = NoRow
    /\ failure' = Later(failure)
    /\ UNCHANGED <<registry, default_options, supplied, elsewhere>>

CallApproxCountDistinct ==
    /\ Idle
    /\ \E col \in PyVals, rsd \in RsdVals :
        LET r == approxCountDistinct(col, rsd)
        IN  /\ call' = [fn |-> "approxCountDistinct", args |-> <<col, rsd>>]
            /\ log' = r.log
            /\ result' = [err |-> r.err, val |-> r.val]
    /\ row' = NoRow
    /\ failure' = Later(failure)
    /\ UNCHANGED <<registry, default_options, supplied, elsewhere>>

CallApprox_count_distinct ==
    /\ Idle
    /\ \E col \in PyVals, rsd \in RsdVals :
        LET r == approx_count_distinct(col, rsd)
        IN  /\ call' = [fn |-> "approx_count_distinct", args |-> <<col, rsd>>]
            /\ log' = r.log
            /\ result' = [err |-> r.err, val |-> r.val]
    /\ row' = NoRow
    /\ failure' = Later(failure)
    /\ UNCHANGED <<registry, default_options, supplied, elsewhere>>

CallGreatest ==
    /\ Idle
    /\ \E cols \in ArgLists :
        LET r == greatest(cols)
        IN  /\ call' = [fn |-> "greatest", args |-> cols]
            /\ log' = r.log
            /\ result' = [err |-> r.err, val |-> r.val]
    /\ row' = NoRow
    /\ failure' = Later(failure)
    /\ UNCHANGED <<registry, default_options, supplied, elsewhere>>

CallLeast ==
    /\ Idle
    /\ \E cols \in ArgLists :
        LET r == least(cols)
        IN  /\ call' = [fn |-> "least", args |-> cols]
            /\ log' = r.log
            /\ result' = [err |-> r.err, val |-> r.val]
    /\ row' = NoRow
    /\ failure' = Later(failure)
    /\ UNCHANGED <<registry, default_options, supplied, elsewhere>>

CallWindow ==
    /\ Idle
    /\ \E timeColumn \in TimeColumns, windowDuration \in WindowDurations,
          slideDuration \in SlideDurations, startTime \in StartTimes :
        LET r == window(timeColumn, windowDuration, slideDuration, startTime)
        IN  /\ call' = [fn |-> "window",
                        args |-> <<timeColumn, windowDuration, slideDuration, startTime>>]
            /\ log' = r.log
            /\ result' = [err |-> r.err, val |-> r.val]
    /\ row' = NoRow
    /\ failure' = Later(failure)
    /\ UNCHANGED <<registry, default_options, supplied, elsewhere>>

CallCreateFunction ==
    /\ Idle
    /\ \E name \in _functions \cup _functions_2_4, col \in LitArgs :
        LET r == _create_function(name, col)
        IN  /\ call' = [fn |-> name, args |-> <<col>>]
            /\ log' = r.log
            /\ result' = [err |-> r.err, val |-> r.val]
    /\ row' = NoRow
    /\ failure' = Later(failure)
    /\ UNCHANGED <<registry, default_options, supplied, elsewhere>>

CallStruct ==
    /\ Idle
    /\ \E cols \in CollArgLists :
        LET r == struct(cols)
        IN  /\ call' = [fn |-> "struct", args |-> cols]
            /\ log' = r.log
            /\ result' = [err |-> r.err, val |-> r.val]
    /\ row' = NoRow
    /\ failure' = Later(failure)
    /\ UNCHANGED <<registry, default_options, supplied, elsewhere>>

CallCreate_map ==
    /\ Idle
    /\ \E cols \in CollArgLists :
        LET r == create_map(cols)
        IN  /\ call' = [fn |-> "create_map", args |-> cols]
            /\ log' = r.log
            /\ result' = [err |-> r.err, val |-> r.val]
    /\ row' = NoRow
    /\ failure' = Later(failure)
    /\ UNCHANGED <<registry, default_options, supplied, elsewhere>>

CallArray ==
    /\ Idle
    /\ \E cols \in CollArgLists :
        LET r == array(cols)
        IN  /\ call' = [fn |-> "array", args |-> cols]
            /\ log' = r.log
            /\ result' = [err |-> r.err, val |-> r.val]
    /\ row' = NoRow
    /\ failure' = Later(failure)
    /\ UNCHANGED <<registry, default_options, supplied, elsewhere>>

CallMap_concat ==
    /\ Idle
    /\ \E cols \in CollArgLists :
        LET r == map_concat(cols)
        IN  /\ call' = [fn |-> "map_concat", args |-> cols]
            /\ log' = r.log
            /\ result' = [err |-> r.err, val |-> r.val]
    /\ row' = NoRow
    /\ failure' = Later(failure)
    /\ UNCHANGED <<registry, default_options, supplied, elsewhere>>

CallWhen ==
    /\ Idle
    /\ \E condition \in PyVals, value \in PyVals :
        LET r == when(condition, value)
        IN  /\ call' = [fn |-> "when", args |-> <<condition, value>>]
            /\ log' = r.log
            /\ result' = [err |-> r.err, val |-> r.val]
    /\ row' = NoRow
    /\ failure' = Later(failure)
    /\ UNCHANGED <<registry, default_options, supplied, elsewhere>>

CallOverlay ==
    /\ Idle
    /\ \E src \in DataCols, replace \in DataCols, pos \in Positions, len \in Positions :
        LET r == overlay(src, replace, pos, len)
        IN  /\ call' = [fn |-> "overlay", args |-> <<src, replace, pos, len>>]
            /\ log' = r.log
            /\ result' = [err |-> r.err, val |-> r.val]
    /\ row' = NoRow
    /\ failure' = Later(failure)
    /\ UNCHANGED <<registry, default_options, supplied, elsewhere>>

CallSubstring_index ==
    /\ Idle
    /\ \E str \in Texts, delim \in Delims, count \in Counts :
        LET r == substring_index(str, delim, count)
        IN  /\ call' = [fn |-> "substring_index", args |-> <<str, delim, count>>]
            /\ log' = r.log
            /\ result' = [err |-> r.err, val |-> r.val]
    /\ row' = NoRow
    /\ failure' = Later(failure)
    /\ UNCHANGED <<registry, default_options, supplied, elsewhere>>

CallArray_repeat ==
    /\ Idle
    /\ \E col \in DataCols, count \in RepeatCounts :
        LET r == array_repeat(col, count)
        IN  /\ call' = [fn |-> "array_repeat", args |-> <<col, count>>]
            /\ log' = r.log
            /\ result' = [err |-> r.err, val |-> r.val]
    /\ row' = NoRow
    /\ failure' = Later(failure)
    /\ UNCHANGED <<registry, default_options, supplied, elsewhere>>

CallFrom_json ==
    /\ Idle
    /\ \E col \in DataCols, schema \in Schemas, passed \in OptionsMaps \cup {NotPassed} :
        LET options == IF passed = NotPassed THEN default_options ELSE passed
            r == from_json(col, schema, options)
        IN  /\ call' = [fn |-> "from_json", args |-> <<col, schema, options>>]
            /\ log' = r.log
            /\ result' = [err |-> r.err, val |-> r.val]
            /\ default_options' =
                IF passed = NotPassed THEN OptionsLeft(options) ELSE default_options
            /\ supplied' =
                [before |-> passed,
                 after |-> IF passed = NotPassed THEN NotPassed ELSE OptionsLeft(options)]
    /\ row' = NoRow
    /\ failure' = Later(failure)
    /\ UNCHANGED <<registry, elsewhere>>

CallTo_json ==
    /\ Idle
    /\ \E col \in DataCols, passed \in OptionsMaps \cup {NotPassed} :
        LET options == IF passed = NotPassed THEN default_options ELSE passed
            r == to_json(col, options)
        IN  /\ call' = [fn |-> "to_json", args |-> <<col, options>>]
            /\ log' = r.log
            /\ result' = [err |-> r.err, val |-> r.val]
            /\ default_options' =
                IF passed = NotPassed THEN OptionsLeft(options) ELSE default_options
            /\ supplied' =
                [before |-> passed,
                 after |-> IF passed = NotPassed THEN NotPassed ELSE OptionsLeft(options)]
    /\ row' = NoRow
    /\ failure' = Later(failure)
    /\ UNCHANGED <<registry, elsewhere>>

CallSchema_of_json ==
    /\ Idle
    /\ \E json \in SchemaSamples, passed \in OptionsMaps \cup {NotPassed} :
        LET options == IF passed = NotPassed THEN default_options ELSE passed
            r == schema_of_json(json, options)
        IN  /\ call' = [fn |-> "schema_of_json", args |-> <<json, options>>]
            /\ log' = r.log
            /\ result' = [err |-> r.err, val |-> r.val]
            /\ default_options' =
                IF passed = NotPassed THEN OptionsLeft(options) ELSE default_options
            /\ supplied' =
                [before |-> passed,
                 after |-> IF passed = NotPassed THEN NotPassed ELSE OptionsLeft(options)]
    /\ row' = NoRow
    /\ failure' = Later(failure)
    /\ UNCHANGED <<registry, elsewhere>>

CallSchema_of_csv ==
    /\ Idle
    /\ \E csv \in SchemaSamples, passed \in OptionsMaps \cup {NotPassed} :
        LET options == IF passed = NotPassed THEN default_options ELSE passed
            r == schema_of_csv(csv, options)
        IN  /\ call' = [fn |-> "schema_of_csv", args |-> <<csv, options>>]
            /\ log' = r.log
            /\ result' = [err |-> r.err, val |-> r.val]
            /\ default_options' =
                IF passed = NotPassed THEN OptionsLeft(options) ELSE default_options
            /\ supplied' =
                [before |-> passed,
                 after |-> IF passed = NotPassed THEN NotPassed ELSE OptionsLeft(options)]
    /\ row' = NoRow
    /\ failure' = Later(failure)
    /\ UNCHANGED <<registry, elsewhere>>

CallTo_csv ==
    /\ Idle
    /\ \E col \in DataCols, passed \in OptionsMaps \cup {NotPassed} :
        LET options == IF passed = NotPassed THEN default_options ELSE passed
            r == to_csv(col, options)
        IN  /\ call' = [fn |-> "to_csv", args |-> <<col, options>>]
            /\ log' = r.log
            /\ result' = [err |-> r.err, val |-> r.val]
            /\ default_options' =
                IF passed = NotPassed THEN OptionsLeft(options) ELSE default_options
            /\ supplied' =
                [before |-> passed,
                 after |-> IF passed = NotPassed THEN NotPassed ELSE OptionsLeft(options)]
    /\ row' = NoRow
    /\ failure' = Later(failure)
    /\ UNCHANGED <<registry, elsewhere>>

CallFrom_csv ==
    /\ Idle
    /\ \E col \in DataCols, schema \in Schemas, passed \in OptionsMaps \cup {NotPassed} :
        LET options == IF passed = NotPassed THEN default_options ELSE passed
            r == from_csv(col, schema, options)
        IN  /\ call' = [fn |-> "from_csv", args |-> <<col, schema, options>>]
            /\ log' = r.log
            /\ result' = [err |-> r.err, val |-> r.val]
            /\ default_options' =
                IF passed = NotPassed THEN OptionsLeft(options) ELSE default_options
            /\ supplied' =
                [before |-> passed,
                 after |-> IF passed = NotPassed THEN NotPassed ELSE OptionsLeft(options)]
    /\ row' = NoRow
    /\ failure' = Later(failure)
    /\ UNCHANGED <<registry, elsewhere>>

CallWindowFunction ==
    /\ Idle
    /\ \E name \in _window_functions, args \in ArgLists :
        LET r == Invoke(registry[name], args)
        IN  /\ call' = [fn |-> name, args |-> args]
            /\ log' = r.log
            /\ result' = [err |-> r.err, val |-> r.val]
            /\ registry' = GlobalsAfterCall(registry, name)
    /\ row' = NoRow
    /\ failure' = Later(failure)
    /\ UNCHANGED <<default_options, supplied, elsewhere>>

CallStringFunction ==
    /\ Idle
    /\ \E name \in _string_functions, args \in ArgLists :
        LET r == Invoke(registry[name], args)
        IN  /\ call' = [fn |-> name, args |-> args]
            /\ log' = r.log
            /\ result' = [err |-> r.err, val |-> r.val]
            /\ registry' = GlobalsAfterCall(registry, name)
    /\ row' = NoRow
    /\ failure' = Later(failure)
    /\ UNCHANGED <<default_options, supplied, elsewhere>>

\* the caller is done with the outcome of the call and ready for the next
Discard ==
    /\ ~Idle
    /\ call' = [fn |-> "", args |-> <<>>]
    /\ log' = <<>>
    /\ result' = [err |-> "", val |-> NoHandle]
    /\ row' = NoRow
    /\ supplied' = NoOptions
    /\ UNCHANGED <<registry, default_options, failure, elsewhere>>

\* the engine evaluates the window expression just built on a row whose
\* time column holds t
Evaluate ==
    /\ call.fn = "window"
    /\ result.err = ""
    /\ \E t \in Timestamps :
        row' = [evaluated |-> TRUE, t |-> t,
                window |-> Buckets(t, WindowSpecOf(result.val.jc.args))]
    /\ UNCHANGED <<call, log, result, registry, default_options, supplied, failure,
                   elsewhere>>

Next ==
    \/ CallOverColumn
    \/ CallBinaryMath
    \/ CallApproxCountDistinct
    \/ CallApprox_count_distinct
    \/ CallGreatest
    \/ CallLeast
    \/ CallWindow
    \/ CallCreateFunction
    \/ CallStruct
    \/ CallCreate_map
    \/ CallArray
    \/ CallMap_concat
    \/ CallWhen
    \/ CallOverlay
    \/ CallSubstring_index
    \/ CallArray_repeat
    \/ CallFrom_json
    \/ CallTo_json
    \/ CallSchema_of_json
    \/ CallSchema_of_csv
    \/ CallTo_csv
    \/ CallFrom_csv
    \/ CallWindowFunction
    \/ CallStringFunction
    \/ Evaluate
    \/ Discard

Spec == Init /\ [][Next]_vars

-----------------------------------------------------------------------------
(* A caller that remembers a failed call and goes on calling *)

\* the failed calls the caller may remember: one of each constructor that
\* raises and of each error
WatchedCalls ==
    {[fn |-> "greatest", args |-> <<>>],
     [fn |-> "greatest", args |-> <<Column(ColumnRef("x"))>>],
     [fn |-> "least", args |-> <<PyStr("a"), PyObject>>],
     [fn |-> "window", args |-> <<PyStr("ts"), PyNone, PyNone, PyNone>>],
     [fn |-> "window",
      args |-> <<PyStr("ts"), DurStr(1, "month"), PyNone, PyNone>>],
     [fn |-> "when", args |-> <<PyStr("a"), PyInt(3)>>],
     [fn |-> "schema_of_json", args |-> <<PyInt(3), PyDict(<<>>)>>],
     [fn |-> "row_number", args |-> <<PyStr("a")>>],
     [fn |-> "upper", args |-> <<>>],
     [fn |-> "abs", args |-> <<PyObject>>]}

Remember ==
    /\ failure = NoFailure
    /\ result.err # ""
    /\ [fn |-> call.fn, args |-> call.args] \in WatchedCalls
    /\ failure' = [fn |-> call.fn, args |-> call.args, err |-> result.err, later |-> 0]
    /\ UNCHANGED <<call, log, result, row, registry, default_options, supplied,
                   elsewhere>>

NextRetry ==
    \/ CallOverColumn
    \/ CallBinaryMath
    \/ CallApproxCountDistinct
    \/ CallApprox_count_distinct
    \/ CallGreatest
    \/ CallLeast
    \/ CallWindow
    \/ CallCreateFunction
    \/ CallStruct
    \/ CallCreate_map
    \/ CallArray
    \/ CallMap_concat
    \/ CallWhen
    \/ CallOverlay
    \/ CallSubstring_index
    \/ CallArray_repeat
    \/ CallFrom_json
    \/ CallTo_json
    \/ CallSchema_of_json
    \/ CallSchema_of_csv
    \/ CallTo_csv
    \/ CallFrom_csv
    \/ CallWindowFunction
    \/ CallStringFunction
    \/ Discard
    \/ Remember

SpecRetry == Init /\ [][NextRetry]_vars

-----------------------------------------------------------------------------
(* Callers at work at the same time: each looks a public name up in the
   module's globals, runs the function it found, and returns, the steps of
   one caller falling anywhere between the steps of another *)

\* one name of every kind of binding
CalledNames ==
    {"lit", "abs", "atan2", "row_number", "toDegrees", "upper", "asc_nulls_first",
     "greatest"}

Lookup(c) ==
    /\ callers[c].pc = "idle"
    /\ \E name \in CalledNames :
        callers' = [callers EXCEPT
                        ![c] = [pc |-> "bound", name |-> name, bound |-> registry[name]]]
    /\ UNCHANGED <<call, log, result, row, registry, default_options, supplied,
                   failure, locals, stdout>>

Run(c) ==
    /\ callers[c].pc = "bound"
    /\ callers' = [callers EXCEPT ![c].pc = "done"]
    /\ registry' = GlobalsAfterCall(registry, callers[c].name)
    /\ UNCHANGED <<call, log, result, row, default_options, supplied, failure,
                   locals, stdout>>

Finish(c) ==
    /\ callers[c].pc = "done"
    /\ callers' = [callers EXCEPT ![c] = NoCaller]
    /\ UNCHANGED <<call, log, result, row, registry, default_options, supplied,
                   failure, locals, stdout>>

NextCallers == \E c \in 1..NumCallers : Lookup(c) \/ Run(c) \/ Finish(c)

SpecCallers == Init /\ [][NextCallers]_vars

-----------------------------------------------------------------------------
(* algoritmos_e_criptografia_rsa/prime.py: primeFactors, statement by
   statement.  locals holds the argument as it was passed (arg), the local
   variables n and i, the end of the range of the for loop (stop) and the
   statement to run next (pc); stdout the numbers printed so far. *)

\* n = 3782 of the driver
DriverN == 3782

Inputs == (0..MaxN) \cup {DriverN}

\* int(math.sqrt(m)) of a non-negative int
Isqrt(m) == CHOOSE r \in 0..m : r * r <= m /\ (r + 1) * (r + 1) > m

\* a range that ends at the square root itself
RangeStopAtRoot(m) == Isqrt(m)

\* int(math.sqrt(n))+1, the end of range(3, ..., 2)
RangeStop(m) == Isqrt(m) + 1

\* print: what a run that never ends prints is kept up to MaxPrinted numbers
print(out, v) == IF Len(out) < MaxPrinted THEN Append(out, v) ELSE out

InitPrime ==
    /\ call = [fn |-> "", args |-> <<>>]
    /\ log = <<>>
    /\ result = [err |-> "", val |-> NoHandle]
    /\ row = NoRow
    /\ registry = ModuleRegistry
    /\ default_options = PyDict(<<>>)
    /\ supplied = NoOptions
    /\ failure = NoFailure
    /\ callers = [c \in 1..NumCallers |-> NoCaller]
    /\ \E m \in Inputs :
        locals = [pc |-> "while2", arg |-> m, n |-> m, i |-> 0, stop |-> 0]
    /\ stdout = <<>>

functionsVars ==
    <<call, log, result, row, registry, default_options, supplied, failure, callers>>

\* while n % 2 == 0: print 2, ; n = n / 2
Halve ==
    /\ locals.pc = "while2"
    /\ locals.n % 2 = 0
    /\ stdout' = print(stdout, 2)
    /\ locals' = [locals EXCEPT !.n = locals.n \div 2]
    /\ UNCHANGED functionsVars

\* the while loop is left and range(3, int(math.sqrt(n))+1, 2) is made
EnterFor ==
    /\ locals.pc = "while2"
    /\ locals.n % 2 # 0
    /\ locals' = [locals EXCEPT !.pc = "for", !.i = 3, !.stop = RangeStop(locals.n)]
    /\ UNCHANGED <<functionsVars, stdout>>

\* for i in range(...): the next i, or the end of the loop
ForNext ==
    /\ locals.pc = "for"
    /\ locals' = [locals EXCEPT !.pc = IF locals.i < locals.stop THEN "while_i" ELSE "if"]
    /\ UNCHANGED <<functionsVars, stdout>>

\* while n % i == 0: print i, ; n = n / i
Divide ==
    /\ locals.pc = "while_i"
    /\ locals.n % locals.i = 0
    /\ stdout' = print(stdout, locals.i)
    /\ locals' = [locals EXCEPT !.n = locals.n \div locals.i]
    /\ UNCHANGED functionsVars

\* the inner while loop is left; the range gives i + 2
NextOdd ==
    /\ locals.pc = "while_i"
    /\ locals.n % locals.i # 0
    /\ locals' = [locals EXCEPT !.pc = "for", !.i = locals.i + 2]
    /\ UNCHANGED <<functionsVars, stdout>>

\* if n > 2: print n
PrintRest ==
    /\ locals.pc = "if"
    /\ stdout' = IF locals.n > 2 THEN print(stdout, locals.n) ELSE stdout
    /\ locals' = [locals EXCEPT !.pc = "done"]
    /\ UNCHANGED functionsVars

NextPrime == Halve \/ EnterFor \/ ForNext \/ Divide \/ NextOdd \/ PrintRest

\* the interpreter runs the next statement as long as there is one
SpecPrime == InitPrime /\ [][NextPrime]_vars /\ WF_vars(NextPrime)

-----------------------------------------------------------------------------
(* The WindowSpec the caller asked for, read off the arguments of the call *)

WindowEvaluated == call.fn = "window" /\ row.evaluated

CallerLength == IntervalSeconds(call.args[2])

CallerSlide ==
    IF IsInterval(call.args[3]) THEN IntervalSeconds(call.args[3]) ELSE CallerLength

CallerOffset == IF IsInterval(call.args[4]) THEN IntervalSeconds(call.args[4]) ELSE 0

\* every interval [s, s + length) with s = offset (mod slide) that holds t
CoveringBuckets(t, length, slide, offset) ==
    {[start |-> s, end |-> s + length] :
        s \in {x \in (t - length + 1)..t : (x - offset) % slide = 0}}

\* the buckets of a row at time t under the expression window(args) returns
BucketsOfCall(args, t) ==
    Buckets(t, WindowSpecOf(window(args[1], args[2], args[3], args[4]).val.jc.args))

-----------------------------------------------------------------------------
(* C1-C5: window bucketization *)

\* C1: under a tumbling window (slide = length, any start offset) every
\* timestamp, before or after the epoch, lies in exactly one bucket, the one
\* interval [start, start + length) aligned to the offset with
\* start <= t < start + length.
C1_TumblingExactlyOneBucket ==
    (WindowEvaluated /\ CallerSlide = CallerLength) =>
        /\ Cardinality(row.window) = 1
        /\ \A b \in row.window :
            b.start <= row.t /\ row.t < b.start + CallerLength
        /\ row.window = CoveringBuckets(row.t, CallerLength, CallerSlide, CallerOffset)

C1_Witness ==
    /\ WindowEvaluated
    /\ CallerSlide = CallerLength
    /\ CallerLength = 3
    /\ CallerOffset = -2
    /\ row.t = -4
    /\ row.window = {[start |-> -5, end |-> -2]}

\* C2 as stated: under a sliding window (slide < length) every timestamp
\* lies in exactly ceil(length / slide) buckets.
C2_AlwaysCeilBuckets ==
    (WindowEvaluated /\ CallerSlide < CallerLength) =>
        Cardinality(row.window) = CeilDiv(CallerLength, CallerSlide)

\* C2 amended: under a sliding window the buckets of t are the intervals
\* [s, s + length) with s = offset (mod slide) that hold t; there are
\* ceil(length / slide) of them when slide divides length, and otherwise
\* floor(length / slide) of them, plus one exactly when
\* (t - offset) mod slide < length mod slide.
C2_SlidingBucketCount ==
    (WindowEvaluated /\ CallerSlide < CallerLength) =>
        /\ row.window = CoveringBuckets(row.t, CallerLength, CallerSlide, CallerOffset)
        /\ Cardinality(row.window) =
            (CallerLength \div CallerSlide)
                + (IF (row.t - CallerOffset) % CallerSlide < CallerLength % CallerSlide
                   THEN 1 ELSE 0)
        /\ (CallerLength % CallerSlide = 0 =>
                Cardinality(row.window) = CeilDiv(CallerLength, CallerSlide))

C2_Witness ==
    /\ WindowEvaluated
    /\ CallerLength = 5
    /\ CallerSlide = 2
    /\ CallerOffset = 1
    /\ row.t = -3
    /\ Cardinality(row.window) = 3

\* C3: buckets are half-open. Every bucket of t is [start, start + length)
\* with start <= t < end; a t that is a bucket start lies in the bucket
\* starting there, and a t that is a bucket end does not lie in the bucket
\* ending there.
C3_HalfOpenBuckets ==
    WindowEvaluated =>
        /\ \A b \in row.window :
            b.end = b.start + CallerLength /\ b.start <= row.t /\ row.t < b.end
        /\ ((row.t - CallerOffset) % CallerSlide = 0 =>
                [start |-> row.t, end |-> row.t + CallerLength] \in row.window)
        /\ [start |-> row.t - CallerLength, end |-> row.t] \notin row.window

C3_Witness ==
    /\ WindowEvaluated
    /\ CallerLength = 5
    /\ CallerSlide = 5
    /\ CallerOffset = 0
    /\ row.t = 5
    /\ [start |-> 5, end |-> 10] \in row.window
    /\ [start |-> 0, end |-> 5] \notin row.window

\* C4: every bucket start is congruent to the start offset modulo the slide,
\* and shifting the start offset by any whole number of slides, to either
\* side, leaves the buckets of every timestamp unchanged.
C4_StartsCongruentToOffset ==
    WindowEvaluated =>
        /\ \A b \in row.window : (b.start - CallerOffset) % CallerSlide = 0
        /\ \A k \in (-MaxShift)..MaxShift :
            BucketsOfCall(
                <<call.args[1], call.args[2], call.args[3],
                  DurStr(CallerOffset + k * CallerSlide, "second")>>,
                row.t) = row.window

C4_Witness ==
    /\ WindowEvaluated
    /\ CallerLength = 4
    /\ CallerSlide = 3
    /\ CallerOffset = -5
    /\ row.t = 1
    /\ row.window = {[start |-> 1, end |-> 5], [start |-> -2, end |-> 2]}

\* C5: under a tumbling window with zero start offset the one bucket of t is
\* [t - (t mod length), t - (t mod length) + length); a 5-second window on
\* 2016-03-11 09:00:07 gives 09:00:05 to 09:00:10.
C5_TumblingZeroOffsetBucket ==
    (WindowEvaluated /\ CallerSlide = CallerLength /\ CallerOffset = 0) =>
        /\ row.window =
            {[start |-> row.t - (row.t % CallerLength),
              end |-> row.t - (row.t % CallerLength) + CallerLength]}
        /\ ((CallerLength = 5 /\ row.t = DoctestTime) =>
                row.window = {[start |-> DoctestTime - 2, end |-> DoctestTime + 3]})

C5_Witness ==
    /\ WindowEvaluated
    /\ call.args = <<PyStr("ts"), DurStr(5, "second"), PyNone, PyNone>>
    /\ row.t = DoctestTime
    /\ row.window = {[start |-> 1457686805, end |-> 1457686810]}

-----------------------------------------------------------------------------
(* C6-C10: argument resolution and deprecated names *)

IsEngineCall(e) == e.ev = "call"
IsWarning(e) == e.ev = "warn"
IsEngineEvent(e) == e.ev # "warn"

\* the engine function calls of a trace, in order
EngineCalls(l) == SelectSeq(l, IsEngineCall)

\* everything a trace did in the engine: handles created and functions called
EngineTrace(l) == SelectSeq(l, IsEngineEvent)

Warnings(l) == SelectSeq(l, IsWarning)

\* C6 as stated: greatest and least with fewer than two arguments raise the
\* insufficient-arguments error (ValueError) without touching the engine;
\* with two or more they do not raise it and call the engine exactly once.
C6_TwoOrMoreAlwaysCallEngine ==
    call.fn \in {"greatest", "least"} =>
        /\ (Len(call.args) < 2 => result.err = "ValueError" /\ log = <<>>)
        /\ (Len(call.args) >= 2 =>
                result.err # "ValueError" /\ Len(EngineCalls(log)) = 1)

\* C6 amended: fewer than two arguments raise ValueError and nothing reaches
\* the engine; with two or more ValueError is never raised, and the engine
\* function is called exactly once, with the resolved arguments in order,
\* when every argument resolves; when one does not, its resolution error is
\* raised and the engine function is not called.
C6_ArityGuardBeforeEngine ==
    call.fn \in {"greatest", "least"} =>
        /\ (Len(call.args) < 2 => result.err = "ValueError" /\ log = <<>>)
        /\ (Len(call.args) >= 2 =>
            /\ result.err # "ValueError"
            /\ IF \A i \in 1..Len(call.args) : call.args[i] # PyObject
               THEN /\ result.err = ""
                    /\ Len(EngineCalls(log)) = 1
                    /\ EngineCalls(log)[1].fn = call.fn
                    /\ Len(EngineCalls(log)[1].args) = Len(call.args)
               ELSE /\ result.err = "UnsupportedLiteralError"
                    /\ EngineCalls(log) = <<>>)

C6_Witness ==
    /\ call.fn = "least"
    /\ call.args = <<Column(ColumnRef("x")), PyStr("a")>>
    /\ result.err = ""
    /\ EngineCalls(log) = <<Event("call", "least", <<ColumnRef("x"), ColumnRef("a")>>)>>

\* C7: a function made by _create_function_over_column passes an argument
\* that is already an expression to the engine unchanged, and resolves a
\* string argument to the column reference of that name, never to a string
\* literal or a raw string.
C7_OverColumnResolution ==
    call.fn \in OverColumnNames =>
        LET col == call.args[1]
        IN  /\ (col.kind = "Column" =>
                    /\ result.err = ""
                    /\ EngineTrace(log) = <<Event("call", call.fn, <<col.jc>>)>>)
            /\ (col.kind = "str" =>
                    /\ result.err = ""
                    /\ EngineCalls(log) = <<Event("call", call.fn, <<ColumnRef(col.s)>>)>>
                    /\ \A i \in 1..Len(log) :
                        log[i].ev = "col" => log[i] = Event("col", "col", <<col>>))

C7_Witness ==
    /\ call = [fn |-> "sqrt", args |-> <<PyStr("a")>>]
    /\ result = [err |-> "", val |-> Column(Call("sqrt", <<ColumnRef("a")>>))]

\* what one argument of a binary math function must reach the engine as
ExpectedBinaryArg(v) ==
    CASE v.kind = "Column" -> v.jc
      [] v.kind = "str" -> ColumnRef(v.s)
      [] v.kind \in {"int", "float", "bool"} -> PyFloat(v.v)
      [] OTHER -> NoHandle

\* C8: atan2, hypot and pow resolve each argument by its own kind alone: an
\* expression unchanged, a string to the column of that name, anything else
\* through float(); the call reaches the engine with both resolved
\* arguments unless a float() cast fails, and then TypeError is raised.
C8_BinaryMathResolution ==
    call.fn \in _binary_mathfunctions =>
        LET e1 == ExpectedBinaryArg(call.args[1])
            e2 == ExpectedBinaryArg(call.args[2])
        IN  IF e1 # NoHandle /\ e2 # NoHandle
            THEN /\ result.err = ""
                 /\ EngineCalls(log) = <<Event("call", call.fn, <<e1, e2>>)>>
                 /\ result.val = Column(Call(call.fn, <<e1, e2>>))
            ELSE /\ result.err = "TypeError"
                 /\ EngineCalls(log) = <<>>

C8_Witness ==
    /\ call = [fn |-> "atan2", args |-> <<Column(ColumnRef("x")), PyInt(3)>>]
    /\ EngineCalls(log) = <<Event("call", "atan2", <<ColumnRef("x"), PyFloat(3)>>)>>

DeprecatedNames == {"toDegrees", "toRadians", "approxCountDistinct"}

\* what the function a deprecated name delegates to does with the arguments
Delegate ==
    IF call.fn = "approxCountDistinct"
    THEN approx_count_distinct(call.args[1], call.args[2])
    ELSE _create_function_over_column(call.fn, call.args[1])

\* C9: a call of a deprecated name hands the warnings machinery exactly one
\* deprecation notice, before anything the delegate does, and then ends as
\* the delegate ends: same value returned or error raised, same engine trace.
C9_OneNoticeThenDelegate ==
    call.fn \in DeprecatedNames =>
        /\ Len(Warnings(log)) = 1
        /\ log[1].ev = "warn"
        /\ Tail(log) = Delegate.log
        /\ result = [err |-> Delegate.err, val |-> Delegate.val]

C9_Witness ==
    /\ call = [fn |-> "toRadians", args |-> <<PyStr("a")>>]
    /\ log = <<Event("warn", "Deprecated in 2.1, use radians instead.", <<>>),
               Event("col", "col", <<PyStr("a")>>),
               Event("call", "toRadians", <<ColumnRef("a")>>)>>
    /\ result.err = ""

\* what the replacement of a deprecated name does with the arguments
Replacement ==
    CASE call.fn = "approxCountDistinct" ->
            approx_count_distinct(call.args[1], call.args[2])
      [] call.fn = "toDegrees" -> globals("degrees", call.args[1])
      [] call.fn = "toRadians" -> globals("radians", call.args[1])

ReplacementName ==
    CASE call.fn = "approxCountDistinct" -> "approx_count_distinct"
      [] call.fn = "toDegrees" -> "degrees"
      [] call.fn = "toRadians" -> "radians"

\* the trace l with engine function old called under the name new
Renamed(l, old, new) ==
    [i \in 1..Len(l) |->
        IF l[i].ev = "call" /\ l[i].fn = old THEN [l[i] EXCEPT !.fn = new] ELSE l[i]]

\* C10 as stated: a deprecated name sends the engine the same function name
\* and the same resolved arguments as its replacement.
C10_SameEngineCallAsReplacement ==
    call.fn \in DeprecatedNames => EngineTrace(log) = EngineTrace(Replacement.log)

\* C10 amended: a deprecated name resolves its arguments as its replacement
\* does; approxCountDistinct sends the engine the same function name as
\* approx_count_distinct, while toDegrees and toRadians send the same
\* resolved arguments as degrees and radians under their own engine function
\* names toDegrees and toRadians.
C10_SameArgumentsAsReplacement ==
    call.fn \in DeprecatedNames =>
        /\ result.err = Replacement.err
        /\ EngineTrace(log) =
            Renamed(EngineTrace(Replacement.log), ReplacementName,
                    IF call.fn = "approxCountDistinct" THEN ReplacementName ELSE call.fn)

C10_Witness ==
    /\ call = [fn |-> "approxCountDistinct", args |-> <<PyStr("a"), PyFloat(1)>>]
    /\ EngineCalls(log) =
        <<Event("call", "approx_count_distinct", <<ColumnRef("a"), PyFloat(1)>>)>>

-----------------------------------------------------------------------------
(* Constructors over any number of columns *)

VariadicNames == {"struct", "array", "create_map", "map_concat"}

Variadic(fn, cols) ==
    CASE fn = "struct" -> struct(cols)
      [] fn = "array" -> array(cols)
      [] fn = "create_map" -> create_map(cols)
      [] fn = "map_concat" -> map_concat(cols)

IsCollection(v) == v.kind \in {"list", "set"}

-----------------------------------------------------------------------------
(* Options *)

OptionNames ==
    {"from_json", "to_json", "schema_of_json", "schema_of_csv", "to_csv", "from_csv"}

\* the options the caller passed
CallerOptions == call.args[Len(call.args)]

\* the options the engine function received
EngineOptions ==
    LET c == EngineCalls(log)[1] IN c.args[Len(c.args)]

StringValued(options) ==
    \A key \in DOMAIN options.items : options.items[key].kind = "str"

\* C12: the serializer maps every options mapping a caller passes to a
\* mapping with the same set of keys whose every value is the canonical
\* string of the caller's value: a string is itself, True is "true", False
\* is "false", the integer 1 is "1".
C12_SerializerKeepsKeys ==
    call.fn \in OptionNames =>
        LET in == CallerOptions.items
            out == _options_to_str(CallerOptions).items
        IN  /\ DOMAIN out = DOMAIN in
            /\ \A key \in DOMAIN in :
                /\ out[key].kind = "str"
                /\ (in[key].kind = "str" => out[key] = in[key])
                /\ (in[key] = PyBool(1) => out[key] = PyStr("true"))
                /\ (in[key] = PyBool(0) => out[key] = PyStr("false"))
                /\ (in[key] = PyInt(1) => out[key] = PyStr("1"))

C12_Witness ==
    /\ call.fn = "to_json"
    /\ CallerOptions = PyDict(("sep" :> PyInt(1)) @@ ("ignoreLeadingWhiteSpace" :> PyBool(0)))
    /\ _options_to_str(CallerOptions) =
        PyDict(("sep" :> PyStr("1")) @@ ("ignoreLeadingWhiteSpace" :> PyStr("false")))

\* C13: whenever from_json, to_json, schema_of_json, schema_of_csv, to_csv
\* or from_csv calls its engine function, the options the engine receives
\* are the serializer's output for the caller's options: every value arrives
\* as a string, and the boolean True arrives as "true".
C13_OptionsReachEngineAsStrings ==
    call.fn \in OptionNames /\ EngineCalls(log) # <<>> =>
        /\ EngineCalls(log)[1].fn = call.fn
        /\ EngineOptions = _options_to_str(CallerOptions)
        /\ DOMAIN EngineOptions.items = DOMAIN CallerOptions.items
        /\ \A key \in DOMAIN EngineOptions.items :
            /\ EngineOptions.items[key].kind = "str"
            /\ (CallerOptions.items[key] = PyBool(1) =>
                    EngineOptions.items[key] = PyStr("true"))

C13_Witness ==
    /\ call = [fn |-> "from_csv",
               args |-> <<Column(ColumnRef("x")), PyStr("a INT"),
                          PyDict("ignoreLeadingWhiteSpace" :> PyBool(1))>>]
    /\ EngineOptions = PyDict("ignoreLeadingWhiteSpace" :> PyStr("true"))

\* C14: serializing options whose values are all strings returns an equal
\* mapping, which is what the engine then receives, and serializing the
\* serializer's output again changes nothing.
C14_SerializerIdempotent ==
    call.fn \in OptionNames =>
        /\ (StringValued(CallerOptions) =>
                /\ _options_to_str(CallerOptions) = CallerOptions
                /\ (EngineCalls(log) # <<>> => EngineOptions = CallerOptions))
        /\ _options_to_str(_options_to_str(CallerOptions)) = _options_to_str(CallerOptions)

C14_Witness ==
    /\ call = [fn |-> "schema_of_csv",
               args |-> <<PyStr("1|a"), PyDict("sep" :> PyStr("|"))>>]
    /\ result.err = ""
    /\ EngineOptions = PyDict("sep" :> PyStr("|"))

-----------------------------------------------------------------------------
(* Errors of construction *)

FailFastNames ==
    {"greatest", "least", "when", "window", "overlay", "schema_of_json",
     "schema_of_csv", "from_csv"}

\* the errors raised while an expression is built, before the engine
\* function is called
ConstructionErrors == {"ValueError", "TypeError", "UnsupportedLiteralError"}

\* C15 as stated: whenever greatest, least, when, window, overlay,
\* schema_of_json, schema_of_csv or from_csv fails with a construction-time
\* error, nothing has been done in the engine when the error is raised: no
\* engine function called and no column handle created.
C15_ErrorsBeforeAnyEngineCall ==
    call.fn \in FailFastNames /\ result.err \in ConstructionErrors =>
        EngineTrace(log) = <<>>

-----------------------------------------------------------------------------
(* Window units and the omitted slide *)

MonthGiven ==
    /\ call.fn = "window"
    /\ \E i \in 2..4 : call.args[i] = DurStr(1, "month")

\* a non-empty string
IsText(v) == v.kind = "str" /\ v # PyStr("")

\* the length is not a non-empty string, or a slide or start that is given
\* (truthy) is not a string
NotTextGiven ==
    \/ ~IsText(call.args[2])
    \/ Truthy(call.args[3]) /\ ~IsText(call.args[3])
    \/ Truthy(call.args[4]) /\ ~IsText(call.args[4])

C17_NoSlideIsTumbling ==
    call.fn = "window" /\ call.args[3] = PyNone /\ result.err = "" =>
        LET w == WindowSpecOf(EngineCalls(log)[1].args)
            explicit == window(call.args[1], call.args[2], call.args[2], call.args[4])
        IN  /\ w.slide = w.length
            /\ w.length = CallerLength
            /\ w.start_offset = CallerOffset
            /\ explicit.err = ""
            /\ WindowSpecOf(EngineCalls(explicit.log)[1].args) = w

C17_Witness ==
    /\ call = [fn |-> "window",
               args |-> <<PyStr("ts"), DurStr(5, "second"), PyNone, DurStr(2, "second")>>]
    /\ result.err = ""
    /\ WindowSpecOf(EngineCalls(log)[1].args) =
        [length |-> 5, slide |-> 5, start_offset |-> 2]

-----------------------------------------------------------------------------
(* substring_index, array_repeat, lit *)

\* the expression node an argument of an engine call stands for: a handle
\* is its node, a native scalar is the literal of its kind
AsNode(a) == IF IsHandle(a) THEN a ELSE Literal(LiteralKind(a), a)

Nodes(args) == [i \in 1..Len(args) |-> AsNode(args[i])]

DoctestCut ==
    [fn |-> "substring_index", args |-> <<PyStr("a.b.c.d"), PyStr("."), PyInt(2)>>]

\* C18 as stated: substring_index("a.b.c.d", ".", 2) builds a call whose
\* three children are literals of kinds string, string and integer; the
\* first is not a column reference.
C18_ThreeLiteralChildren ==
    call = DoctestCut =>
        /\ result.err = ""
        /\ Nodes(EngineCalls(log)[1].args) =
            <<Literal("string", PyStr("a.b.c.d")), Literal("string", PyStr(".")),
              Literal("integer", PyInt(2))>>

\* C18 amended: substring_index("a.b.c.d", ".", 2) builds a call whose
\* first child is the column reference named "a.b.c.d", a bare string in
\* that position being a column name, and whose other two children are
\* literals of kinds string and integer.
C18_FirstChildIsColumnReference ==
    call = DoctestCut =>
        /\ result.err = ""
        /\ EngineCalls(log)[1].fn = "substring_index"
        /\ Nodes(EngineCalls(log)[1].args) =
            <<ColumnRef("a.b.c.d"), Literal("string", PyStr(".")),
              Literal("integer", PyInt(2))>>

C18_Witness ==
    /\ call = DoctestCut
    /\ EngineTrace(log) =
        <<Event("col", "col", <<PyStr("a.b.c.d")>>),
          Event("call", "substring_index", <<ColumnRef("a.b.c.d"), PyStr("."), PyInt(2)>>)>>

\* C19: in array_repeat(col, count) a col that is already an expression
\* reaches the engine as its own handle, no handle being created for it; a
\* count that is a plain integer reaches the engine as the integer literal
\* of that value, and a count that is an expression as its own handle.
C19_ArrayRepeatResolution ==
    call.fn = "array_repeat" =>
        LET col == call.args[1]
            count == call.args[2]
            sent == EngineCalls(log)[1].args
        IN  /\ (col.kind = "Column" =>
                    /\ result.err = ""
                    /\ EngineTrace(log) = EngineCalls(log)
                    /\ Len(EngineCalls(log)) = 1
                    /\ sent[1] = col.jc)
            /\ (result.err = "" /\ count.kind = "int" =>
                    AsNode(sent[2]) = Literal("integer", count))
            /\ (result.err = "" /\ count.kind = "Column" => sent[2] = count.jc)

C19_Witness ==
    /\ call = [fn |-> "array_repeat", args |-> <<Column(ColumnRef("x")), PyInt(3)>>]
    /\ result.err = ""
    /\ EngineTrace(log) = <<Event("call", "array_repeat", <<ColumnRef("x"), PyInt(3)>>)>>

\* C20: lit applied to the Column that lit returned returns that Column
\* again: for every native value of a supported kind, and for every Column
\* that is already a literal, the expression node after the second coercion
\* is the node after the first.
C20_LitIdempotent ==
    call.fn = "lit" /\ result.err = "" =>
        LET again == _create_function("lit", result.val)
        IN  /\ again.err = ""
            /\ again.val = result.val
            /\ (LiteralKind(call.args[1]) # "" =>
                    result.val = Column(Literal(LiteralKind(call.args[1]), call.args[1])))
            /\ (call.args[1].kind = "Column" => result.val = call.args[1])

C20_Witness ==
    /\ call = [fn |-> "lit", args |-> <<Column(Literal("integer", PyInt(3)))>>]
    /\ result = [err |-> "", val |-> Column(Literal("integer", PyInt(3)))]

-----------------------------------------------------------------------------
(* Argument checks of window, when and the schema functions *)

\* C24: window raises TypeError, returns no expression and does not call
\* the engine function whenever windowDuration is empty or not a string,
\* and whenever a slideDuration or startTime that is given is not a string.
C24_WindowRejectsNonStrings ==
    call.fn = "window" =>
        /\ (~IsText(call.args[2]) => result.err = "TypeError")
        /\ (Truthy(call.args[3]) /\ call.args[3].kind # "str" => result.err = "TypeError")
        /\ (Truthy(call.args[4]) /\ call.args[4].kind # "str" => result.err = "TypeError")
        /\ (result.err = "TypeError" =>
                /\ result.val = NoHandle
                /\ EngineCalls(log) = <<>>
                /\ ~row.evaluated)

C24_Witness ==
    /\ call = [fn |-> "window",
               args |-> <<Column(ColumnRef("ts")), PyStr(""), PyNone, DurStr(2, "second")>>]
    /\ result = [err |-> "TypeError", val |-> NoHandle]
    /\ log = <<>>

\* C25: when(condition, value) raises TypeError and does nothing in the
\* engine whenever condition is not a Column, a column name included;
\* when it is a Column, the engine function when is called once with the
\* condition's handle and with value's own handle if value is a Column,
\* the native value as it is if not.
C25_WhenNeedsColumnCondition ==
    call.fn = "when" =>
        LET condition == call.args[1]
            value == call.args[2]
        IN  IF condition.kind # "Column"
            THEN /\ result = [err |-> "TypeError", val |-> NoHandle]
                 /\ log = <<>>
            ELSE /\ result.err = ""
                 /\ log = <<Event("call", "when",
                                  <<condition.jc,
                                    IF value.kind = "Column" THEN value.jc ELSE value>>)>>

C25_Witness ==
    /\ call = [fn |-> "when", args |-> <<PyStr("a"), PyInt(3)>>]
    /\ result.err = "TypeError"
    /\ log = <<>>

SchemaNames == {"schema_of_json", "schema_of_csv", "from_csv"}

\* the schema argument of the call: the first of schema_of_json and
\* schema_of_csv, the second of from_csv
SchemaArg == IF call.fn = "from_csv" THEN call.args[2] ELSE call.args[1]

\* the schema the engine function received
SchemaSent ==
    LET c == EngineCalls(log)[1]
    IN  IF call.fn = "from_csv" THEN c.args[2] ELSE c.args[1]

\* C26: in schema_of_json, schema_of_csv and from_csv a schema given as a
\* string reaches the engine as the string literal of that text, never as a
\* column reference, a schema given as a Column reaches it as the Column's
\* own handle, and any other schema raises TypeError, no expression being
\* returned and no engine function called.
C26_SchemaArgumentResolution ==
    call.fn \in SchemaNames =>
        /\ (SchemaArg.kind = "str" /\ EngineCalls(log) # <<>> =>
                /\ SchemaSent = Literal("string", SchemaArg)
                /\ Event("col", "col", <<SchemaArg>>) \notin {log[i] : i \in 1..Len(log)})
        /\ (SchemaArg.kind = "Column" /\ EngineCalls(log) # <<>> =>
                SchemaSent = SchemaArg.jc)
        /\ (SchemaArg.kind \in {"str", "Column"} /\ call.fn # "from_csv" =>
                result.err = "" /\ Len(EngineCalls(log)) = 1)
        /\ (SchemaArg.kind \notin {"str", "Column"} =>
                /\ result = [err |-> "TypeError", val |-> NoHandle]
                /\ EngineCalls(log) = <<>>)

C26_Witness ==
    /\ call.fn = "schema_of_csv"
    /\ SchemaArg = PyStr("1|a")
    /\ result.err = ""
    /\ SchemaSent = Literal("string", PyStr("1|a"))

FalsyFields == {PyNone, PyStr(""), PyInt(0)}

\* the field as the caller would have left it out
Omitted(v) == IF v \in FalsyFields THEN PyNone ELSE v

\* C29: a slideDuration or startTime of window that is None, "" or 0 is
\* taken as not given: the call has the outcome and the engine trace of the
\* call with that parameter left at None, so the field is not type-checked
\* and raises nothing.
C29_FalsyFieldsAreOmitted ==
    call.fn = "window" =>
        LET omitted == window(call.args[1], call.args[2],
                              Omitted(call.args[3]), Omitted(call.args[4]))
        IN  /\ result = [err |-> omitted.err, val |-> omitted.val]
            /\ log = omitted.log
            /\ (IsText(call.args[2]) /\ call.args[3] \in FalsyFields
                    /\ call.args[4] \in FalsyFields =>
                    result.err # "TypeError" /\ Len(EngineCalls(log)[1].args) = 2)

C29_Witness ==
    /\ call = [fn |-> "window",
               args |-> <<PyStr("ts"), DurStr(5, "second"), PyInt(0), PyStr("")>>]
    /\ result.err = ""
    /\ EngineCalls(log) =
        <<Event("call", "window", <<ColumnRef("ts"), DurStr(5, "second")>>)>>

-----------------------------------------------------------------------------
(* The options dicts after the calls *)

\* C30: after any sequence of calls of from_json, to_json, schema_of_json,
\* schema_of_csv, to_csv and from_csv, with options passed or left to the
\* default, the dict bound as the default of options is still empty, and
\* the dict a caller passed holds after the call what it held before, the
\* engine having received a mapping of its own.
C30_OptionsNeverWritten ==
    /\ default_options = PyDict(<<>>)
    /\ supplied.after = supplied.before
    /\ (call.fn \in OptionNames =>
            CallerOptions =
                IF supplied.before = NotPassed THEN PyDict(<<>>) ELSE supplied.before)
    /\ (call.fn \notin OptionNames => supplied = NoOptions)

C30_Witness ==
    /\ call.fn = "to_json"
    /\ supplied.before = PyDict("sep" :> PyBool(1))
    /\ supplied.after = PyDict("sep" :> PyBool(1))
    /\ result.err = ""
    /\ EngineOptions = PyDict("sep" :> PyStr("true"))
    /\ default_options = PyDict(<<>>)

-----------------------------------------------------------------------------
(* Argument counts *)

ArityNames == _window_functions \cup _string_functions

\* the number of parameters of the function bound to the name
Arity(name) == IF name \in _window_functions THEN 0 ELSE 1

\* C22: a window function or a string function called with a number of
\* arguments other than the one its function takes (0 for a window
\* function, 1 for a string function) raises the arity error, Python's
\* TypeError, with nothing done in the engine; called with the right
\* number it raises no such error and builds the call for any argument
\* that resolves, a name, an expression or a number alike, the type of the
\* argument not being looked at.
C22_ArityCheckedTypesNot ==
    call.fn \in ArityNames =>
        IF Len(call.args) # Arity(call.fn)
        THEN /\ result = [err |-> "TypeError", val |-> NoHandle]
             /\ log = <<>>
        ELSE /\ result.err # "TypeError"
             /\ (Len(call.args) = 0 =>
                    /\ result.err = ""
                    /\ log = <<Event("call", call.fn, <<>>)>>)
             /\ (Len(call.args) = 1 /\ call.args[1] # PyObject =>
                    /\ result.err = ""
                    /\ EngineCalls(log) =
                        <<Event("call", call.fn, <<_to_java_column(call.args[1]).val>>)>>)

C22_Witness ==
    /\ call = [fn |-> "upper", args |-> <<Column(ColumnRef("x")), PyInt(3)>>]
    /\ result.err = "TypeError"
    /\ log = <<>>

-----------------------------------------------------------------------------
(* The module's globals under concurrent callers *)

\* C23: however the steps of the callers fall between one another, the
\* module's globals bind every public name to the function the module
\* bound it to when it was imported, and the function a caller has looked
\* up and is running is that function.
C23_RegistryReadOnly ==
    /\ registry = ModuleRegistry
    /\ \A c \in 1..NumCallers :
        callers[c].pc # "idle" => callers[c].bound = ModuleRegistry[callers[c].name]

C23_Witness ==
    /\ callers[1] = [pc |-> "done", name |-> "toDegrees",
                     bound |-> ModuleRegistry["toDegrees"]]
    /\ callers[2].pc = "bound"
    /\ callers[2].name = "toDegrees"
    /\ registry["toDegrees"].factory = "_wrap_deprecated_function"

-----------------------------------------------------------------------------
(* The same call again *)

\* C21: once a call has failed, the same constructor called again with the
\* same arguments fails with the same error, whatever calls were made in
\* between.
C21_SameCallFailsAlike ==
    failure.fn # "" /\ call.fn = failure.fn /\ call.args = failure.args =>
        result.err = failure.err

C21_Witness ==
    /\ failure = [fn |-> "window", args |-> <<PyStr("ts"), PyNone, PyNone, PyNone>>,
                  err |-> "TypeError", later |-> 2]
    /\ call = [fn |-> "window", args |-> <<PyStr("ts"), PyNone, PyNone, PyNone>>]
    /\ result.err = "TypeError"

-----------------------------------------------------------------------------
(* primeFactors *)

IsPrime(p) == p >= 2 /\ \A d \in 2..(p - 1) : p % d # 0

RECURSIVE Product(_)
Product(seq) == IF seq = <<>> THEN 1 ELSE Head(seq) * Product(Tail(seq))

Returned == locals.pc = "done"

\* C27: when primeFactors(n) has returned, for n >= 2 every number printed
\* is prime, the numbers are in nondecreasing order and their product is n;
\* for n = 3782 they are 2, 31, 61; for n = 1 nothing is printed.
C27_PrintsThePrimeFactors ==
    Returned =>
        /\ (locals.arg >= 2 =>
                /\ \A k \in 1..Len(stdout) : IsPrime(stdout[k])
                /\ \A k \in 1..(Len(stdout) - 1) : stdout[k] <= stdout[k + 1]
                /\ Product(stdout) = locals.arg)
        /\ (locals.arg = DriverN => stdout = <<2, 31, 61>>)
        /\ (locals.arg = 1 => stdout = <<>>)

C27_Witness ==
    /\ Returned
    /\ locals.arg = 36
    /\ stdout = <<2, 2, 3, 3>>

\* C28 as stated: every run of primeFactors on a non-negative integer
\* returns.
C28_AlwaysReturns == <>Returned

=============================================================================
